---- MODULE Spec2Model ----
(***************************************************************************)
(* EscherBall: the frame packer of src/scripts/scene.py (is_overlap,       *)
(* is_frame_placed_on_wall, hang_frames), the ball animation of           *)
(* src/ball_manager.py (animate_ball, setup_ball_animation) and the        *)
(* staircase of src/scripts/escher_stairs.py (generate_stairs).            *)
(*                                                                         *)
(* Lengths are integers in fifths of a scene unit, so the clearance 0.2 is *)
(* 1 and the wall of hang_frames (67 - 3 = 64) is 320.  Widths, heights    *)
(* and wall sizes are even, which makes every "/ 2" of the source exact.   *)
(***************************************************************************)
EXTENDS Integers, Sequences, FiniteSets, TLC

VARIABLES
    frame_data_list,  \* the accepted rectangles <<x, y, w, h>>, in order
    pc,               \* is_frame_placed_on_wall: "idle" | "loop" | "returned"
    attempt,          \* the loop index `_` of range(max_attempts)
    fr_width,         \* _fr_width of the call in progress
    fr_height,        \* _fr_height of the call in progress
    wall_size,        \* _wall_size of the run
    max_attempts,     \* the attempt budget of the run
    grid,             \* spacing of the values the random source is sampled at
    ret,              \* "none" | "True" | "False": the call's return value
    entry_list,       \* frame_data_list as it was when the call was entered
    draws,            \* candidate centres drawn by the call so far
    rejected,         \* of these, the ones is_overlap reported overlapping
    hpc,              \* hang_frames: "off" | "for" | "call" | "done"
    num_done,         \* hang_frames: candidates processed so far
    frame_list,       \* hang_frames: the frames kept, in order
    deleted,          \* hang_frames: the frames passed to cmds.delete
    step_top_coords,  \* animate_ball: the waypoints _step_top_coords
    apc,              \* animate_ball: "off" | "start" | "outer" | "inner" | "done" | "error"
    seg,              \* animate_ball: the loop index i of line 74
    frame,            \* animate_ball: the loop index frame of line 79
    ball_translate,   \* the ball's translate attribute, as cmds.xform left it
    keys,             \* the ball's keyframes, by frame
    color_keys,       \* the shader's emissionColor keyframes, in the order set
    palette,          \* the colours the random source is sampled at
    earlier,          \* the keys of an earlier run of animate_ball, or << >>
    coord_den,        \* the waypoints' coordinates are integers over coord_den
    spc,              \* generate_stairs and setup_ball_animation: position
    step_height,      \* generate_stairs: step_height, in twentieths
    coord_dict,       \* generate_stairs: <<coord_dict['x'], coord_dict['z']>>
    num_steps,        \* generate_flight_of_stairs: num_steps
    steps,            \* generate_flight_of_stairs: steps
    flight_call,      \* which of the four calls of lines 109-112 is next or running
    cubes,            \* the scene's steps, in the order created
    groups,           \* the scene's flight groups, by the number their name ends in
    fn_in,            \* the arguments a function under test is applied to
    fn_out            \* its results, or << >> before it is applied

vars == <<frame_data_list, pc, attempt, fr_width, fr_height, wall_size,
          max_attempts, grid, ret, entry_list, draws, rejected,
          hpc, num_done, frame_list, deleted,
          step_top_coords, apc, seg, frame, ball_translate, keys, color_keys,
          palette, earlier, coord_den,
          spc, step_height, coord_dict, num_steps, steps, flight_call, cubes, groups,
          fn_in, fn_out>>

callVars == <<pc, attempt, fr_width, fr_height, ret, entry_list, draws, rejected>>
runVars  == <<wall_size, max_attempts, grid>>
hangVars == <<hpc, num_done, frame_list, deleted>>
animVars == <<step_top_coords, apc, seg, frame, ball_translate, keys, color_keys,
              palette>>
packVars == <<frame_data_list, callVars, runVars, hangVars>>
stairVars == <<spc, step_height, coord_dict, num_steps, steps, flight_call, cubes,
               groups>>
fnVars    == <<fn_in, fn_out>>
extraVars == <<earlier, coord_den, stairVars, fnVars>>

\* No staircase is being generated.
StairsOff ==
    /\ spc = "off"
    /\ step_height = 0
    /\ coord_dict = <<0, 0>>
    /\ num_steps = 0
    /\ steps = << >>
    /\ flight_call = 0
    /\ cubes = << >>
    /\ groups = << >>

\* No function is under test.
FnOff ==
    /\ fn_in = << >>
    /\ fn_out = << >>

\* No animation is being set up.
AnimOff ==
    /\ step_top_coords = << >>
    /\ apc = "off"
    /\ seg = 0
    /\ frame = 0
    /\ ball_translate = <<0, 0, 0>>
    /\ keys = << >>
    /\ color_keys = << >>
    /\ palette = {}
    /\ earlier = << >>
    /\ coord_den = 1

---------------------------------------------------------------------------
(* Bounds of the model. *)

\* Stands for max_attempts (300 in scene.py, 100 in impossibleStairs.py) in
\* the specifications that explore many accepted lists.
MaxAttempts == 3

\* A run issues placement requests while fewer than this many are accepted.
MaxFrames == 3

\* Stands for num_frames = 400 of hang_frames.
NumFrames == 3

(* Program constants. *)
min_dist_between_fr == 1
SQ_WALL_SIZE == 335
max_attempts_scene == 300
max_attempts_stairs == 100

\* Wall sizes and requested sizes <<width, height>> of a packing run; the
\* requests include non-positive sizes and sizes larger than every wall.
WallSizes == {6}
Requests == {<<2, 2>>, <<4, 2>>, <<4, 4>>,
             <<0, 6>>, <<6, -2>>, <<8, 6>>, <<6, 8>>}

\* The end points of random.uniform(8, 12) in hang_frames.
HangSizes == {40, 60}

---------------------------------------------------------------------------
(* Pure functions. *)

Min(a, b) == IF a <= b THEN a ELSE b
Max(a, b) == IF a <= b THEN b ELSE a

\* random.uniform(a, b) = a + (b - a) * random(): a value between the two
\* arguments, whichever is the larger.  The model samples it at a, at b and
\* at every multiple of g from the smaller end.
uniform(a, b, g) ==
    LET lo == Min(a, b)
        hi == Max(a, b)
    IN  {v \in lo..hi : v = hi \/ (v - lo) % g = 0}

\* overlaps_frame with the comparisons not strict.
overlaps_frame_nonstrict(_x_pos, _y_pos, _fr_width, _fr_height, frame_data) ==
    LET curr_fr_x      == frame_data[1]
        curr_fr_y      == frame_data[2]
        curr_fr_width  == frame_data[3]
        curr_fr_height == frame_data[4]
    IN  ~ (  (_x_pos + (_fr_width \div 2)  + min_dist_between_fr) <= (curr_fr_x - (curr_fr_width  \div 2))
          \/ (_x_pos - (_fr_width \div 2)  - min_dist_between_fr) >= (curr_fr_x + (curr_fr_width  \div 2))
          \/ (_y_pos + (_fr_height \div 2) + min_dist_between_fr) <= (curr_fr_y - (curr_fr_height \div 2))
          \/ (_y_pos - (_fr_height \div 2) - min_dist_between_fr) >= (curr_fr_y + (curr_fr_height \div 2)))

\* overlaps_frame with the clearance left out of the comparisons.
overlaps_frame_no_clearance(_x_pos, _y_pos, _fr_width, _fr_height, frame_data) ==
    LET curr_fr_x      == frame_data[1]
        curr_fr_y      == frame_data[2]
        curr_fr_width  == frame_data[3]
        curr_fr_height == frame_data[4]
    IN  ~ (  (_x_pos + (_fr_width \div 2))  < (curr_fr_x - (curr_fr_width  \div 2))
          \/ (_x_pos - (_fr_width \div 2))  > (curr_fr_x + (curr_fr_width  \div 2))
          \/ (_y_pos + (_fr_height \div 2)) < (curr_fr_y - (curr_fr_height \div 2))
          \/ (_y_pos - (_fr_height \div 2)) > (curr_fr_y + (curr_fr_height \div 2)))

\* One iteration of the loop of is_overlap: the candidate against frame_data.
overlaps_frame(_x_pos, _y_pos, _fr_width, _fr_height, frame_data) ==
    LET curr_fr_x      == frame_data[1]
        curr_fr_y      == frame_data[2]
        curr_fr_width  == frame_data[3]
        curr_fr_height == frame_data[4]
    IN  ~ (  (_x_pos + (_fr_width \div 2)  + min_dist_between_fr) < (curr_fr_x - (curr_fr_width  \div 2))
          \/ (_x_pos - (_fr_width \div 2)  - min_dist_between_fr) > (curr_fr_x + (curr_fr_width  \div 2))
          \/ (_y_pos + (_fr_height \div 2) + min_dist_between_fr) < (curr_fr_y - (curr_fr_height \div 2))
          \/ (_y_pos - (_fr_height \div 2) - min_dist_between_fr) > (curr_fr_y + (curr_fr_height \div 2)))

\* is_overlap answering True unless some accepted frame is clear of the candidate.
is_overlap_unless_clear(_x_pos, _y_pos, _fr_width, _fr_height, _frame_data_list) ==
    \A k \in 1..Len(_frame_data_list) :
        overlaps_frame(_x_pos, _y_pos, _fr_width, _fr_height, _frame_data_list[k])

is_overlap(_x_pos, _y_pos, _fr_width, _fr_height, _frame_data_list) ==
    \E k \in 1..Len(_frame_data_list) :
        overlaps_frame(_x_pos, _y_pos, _fr_width, _fr_height, _frame_data_list[k])

\* x_candidates without the half width kept clear of the wall's edges.
x_candidates_no_inset(_fr_width, _wall_size, g) ==
    uniform(-_wall_size \div 2, _wall_size \div 2, g)

\* The candidate centres line 106-107 can draw.
x_candidates(_fr_width, _wall_size, g) ==
    uniform((-_wall_size \div 2) + (_fr_width \div 2), (_wall_size \div 2) - (_fr_width \div 2), g)

y_candidates(_fr_height, _wall_size, g) ==
    uniform(_fr_height \div 2, _wall_size - (_fr_height \div 2), g)

---------------------------------------------------------------------------
(* is_frame_placed_on_wall *)

\* Entry of a call with the given size on the run's list.
Enter(w, h) ==
    /\ pc' = "loop"
    /\ attempt' = 0
    /\ fr_width' = w
    /\ fr_height' = h
    /\ ret' = "none"
    /\ entry_list' = frame_data_list
    /\ draws' = 0
    /\ rejected' = 0

\* AttemptPlace putting the new entry at the head of the list.
AttemptPlace_prepend ==
    /\ pc = "loop"
    /\ attempt < max_attempts
    /\ \E x_pos \in x_candidates(fr_width, wall_size, grid) :
       \E y_pos \in y_candidates(fr_height, wall_size, grid) :
          /\ ~ is_overlap(x_pos, y_pos, fr_width, fr_height, frame_data_list)
          /\ frame_data_list' = <<(<<x_pos, y_pos, fr_width, fr_height>>)>> \o frame_data_list
    /\ draws' = draws + 1
    /\ ret' = "True"
    /\ pc' = "returned"
    /\ UNCHANGED <<attempt, fr_width, fr_height, entry_list, rejected, runVars, animVars, extraVars, hangVars>>

\* AttemptPlace recording the height where the width belongs and vice versa.
AttemptPlace_swapped ==
    /\ pc = "loop"
    /\ attempt < max_attempts
    /\ \E x_pos \in x_candidates(fr_width, wall_size, grid) :
       \E y_pos \in y_candidates(fr_height, wall_size, grid) :
          /\ ~ is_overlap(x_pos, y_pos, fr_width, fr_height, frame_data_list)
          /\ frame_data_list' = Append(frame_data_list, <<x_pos, y_pos, fr_height, fr_width>>)
    /\ draws' = draws + 1
    /\ ret' = "True"
    /\ pc' = "returned"
    /\ UNCHANGED <<attempt, fr_width, fr_height, entry_list, rejected, runVars, animVars, extraVars, hangVars>>

\* An iteration whose candidate overlaps nothing: record it, return True.
AttemptPlace ==
    /\ pc = "loop"
    /\ attempt < max_attempts
    /\ \E x_pos \in x_candidates(fr_width, wall_size, grid) :
       \E y_pos \in y_candidates(fr_height, wall_size, grid) :
          /\ ~ is_overlap(x_pos, y_pos, fr_width, fr_height, frame_data_list)
          /\ frame_data_list' = Append(frame_data_list, <<x_pos, y_pos, fr_width, fr_height>>)
    /\ draws' = draws + 1
    /\ ret' = "True"
    /\ pc' = "returned"
    /\ UNCHANGED <<attempt, fr_width, fr_height, entry_list, rejected, runVars, animVars, extraVars, hangVars>>

\* An iteration whose candidate overlaps an accepted frame: next iteration.
AttemptOverlap ==
    /\ pc = "loop"
    /\ attempt < max_attempts
    /\ \E x_pos \in x_candidates(fr_width, wall_size, grid) :
       \E y_pos \in y_candidates(fr_height, wall_size, grid) :
          is_overlap(x_pos, y_pos, fr_width, fr_height, frame_data_list)
    /\ draws' = draws + 1
    /\ rejected' = rejected + 1
    /\ attempt' = attempt + 1
    /\ UNCHANGED <<frame_data_list, pc, fr_width, fr_height, ret, entry_list, runVars, animVars, extraVars, hangVars>>

\* Exhaust giving up one iteration early.
Exhaust_early ==
    /\ pc = "loop"
    /\ attempt = max_attempts - 1
    /\ ret' = "False"
    /\ pc' = "returned"
    /\ UNCHANGED <<frame_data_list, attempt, fr_width, fr_height, entry_list,
                   draws, rejected, runVars, animVars, extraVars, hangVars>>

\* The loop ran out: return False.
Exhaust ==
    /\ pc = "loop"
    /\ attempt = max_attempts
    /\ ret' = "False"
    /\ pc' = "returned"
    /\ UNCHANGED <<frame_data_list, attempt, fr_width, fr_height, entry_list,
                   draws, rejected, runVars, animVars, extraVars, hangVars>>

---------------------------------------------------------------------------
(* A packing run: calls of any size on one list. *)

Request ==
    /\ hpc = "off"
    /\ pc = "idle"
    /\ Len(frame_data_list) < MaxFrames
    /\ \E r \in Requests : Enter(r[1], r[2])
    /\ UNCHANGED <<frame_data_list, runVars, animVars, extraVars, hangVars>>

\* The call's frame is gone once the caller has its return value.
Leave ==
    /\ pc' = "idle"
    /\ attempt' = 0
    /\ fr_width' = 0
    /\ fr_height' = 0
    /\ ret' = "none"
    /\ entry_list' = << >>
    /\ draws' = 0
    /\ rejected' = 0

Resume ==
    /\ hpc = "off"
    /\ pc = "returned"
    /\ Leave
    /\ UNCHANGED <<frame_data_list, runVars, animVars, extraVars, hangVars>>

Init ==
    /\ frame_data_list = << >>
    /\ pc = "idle"
    /\ attempt = 0
    /\ fr_width = 0
    /\ fr_height = 0
    /\ wall_size \in WallSizes
    /\ max_attempts = MaxAttempts
    /\ grid = 1
    /\ ret = "none"
    /\ entry_list = << >>
    /\ draws = 0
    /\ rejected = 0
    /\ hpc = "off"
    /\ num_done = 0
    /\ frame_list = << >>
    /\ deleted = {}
    /\ AnimOff
    /\ StairsOff
    /\ FnOff

Next == Request \/ AttemptPlace \/ AttemptOverlap \/ Exhaust \/ Resume

Spec == Init /\ [][Next]_vars

---------------------------------------------------------------------------
(* The same run with the attempt budgets of the source, on fewer sizes. *)

BudgetRequests == {<<4, 2>>, <<4, 4>>}

RequestBudget ==
    /\ hpc = "off"
    /\ pc = "idle"
    /\ Len(frame_data_list) < MaxFrames
    /\ \E r \in BudgetRequests : Enter(r[1], r[2])
    /\ UNCHANGED <<frame_data_list, runVars, animVars, extraVars, hangVars>>

InitBudget ==
    /\ frame_data_list = << >>
    /\ pc = "idle"
    /\ attempt = 0
    /\ fr_width = 0
    /\ fr_height = 0
    /\ wall_size \in WallSizes
    /\ max_attempts \in {max_attempts_scene, max_attempts_stairs}
    /\ grid = 1
    /\ ret = "none"
    /\ entry_list = << >>
    /\ draws = 0
    /\ rejected = 0
    /\ hpc = "off"
    /\ num_done = 0
    /\ frame_list = << >>
    /\ deleted = {}
    /\ AnimOff
    /\ StairsOff
    /\ FnOff

NextBudget == RequestBudget \/ AttemptPlace \/ AttemptOverlap \/ Exhaust \/ Resume

SpecBudget == InitBudget /\ [][NextBudget]_vars

---------------------------------------------------------------------------
(* hang_frames *)

\* The frame generate_frame creates in iteration num_done of the loop.
CurrentFrame == num_done + 1

\* Line 151 and 156: a frame of random size, and the call that places it.
HangGenerate ==
    /\ hpc = "for"
    /\ num_done < NumFrames
    /\ \E w \in HangSizes : \E h \in HangSizes : Enter(w, h)
    /\ hpc' = "call"
    /\ UNCHANGED <<frame_data_list, runVars, animVars, extraVars, num_done, frame_list, deleted>>

\* HangDelete leaving the loop, as an error raised by the failure would.
HangDelete_abort ==
    /\ hpc = "call"
    /\ pc = "returned"
    /\ ret = "False"
    /\ deleted' = deleted \cup {CurrentFrame}
    /\ num_done' = num_done + 1
    /\ hpc' = "done"
    /\ Leave
    /\ UNCHANGED <<frame_data_list, runVars, animVars, extraVars, frame_list>>

\* Line 156-157: the placement failed, the frame is deleted.
HangDelete ==
    /\ hpc = "call"
    /\ pc = "returned"
    /\ ret = "False"
    /\ deleted' = deleted \cup {CurrentFrame}
    /\ num_done' = num_done + 1
    /\ hpc' = "for"
    /\ Leave
    /\ UNCHANGED <<frame_data_list, runVars, animVars, extraVars, frame_list>>

\* Line 158-184: the placement succeeded, the frame is shaded and kept.
HangKeep ==
    /\ hpc = "call"
    /\ pc = "returned"
    /\ ret = "True"
    /\ frame_list' = Append(frame_list, CurrentFrame)
    /\ num_done' = num_done + 1
    /\ hpc' = "for"
    /\ Leave
    /\ UNCHANGED <<frame_data_list, runVars, animVars, extraVars, deleted>>

\* Line 186: the loop is over, frame_list is returned.
HangReturn ==
    /\ hpc = "for"
    /\ num_done = NumFrames
    /\ hpc' = "done"
    /\ UNCHANGED <<frame_data_list, callVars, runVars, animVars, extraVars, num_done, frame_list, deleted>>

\* Line 147-149 and 154; the random source is sampled at the ends of its
\* ranges, which puts every candidate in a corner of the wall.
InitHang ==
    /\ frame_data_list = << >>
    /\ pc = "idle"
    /\ attempt = 0
    /\ fr_width = 0
    /\ fr_height = 0
    /\ wall_size = SQ_WALL_SIZE - 15
    /\ max_attempts = MaxAttempts
    /\ grid = SQ_WALL_SIZE
    /\ ret = "none"
    /\ entry_list = << >>
    /\ draws = 0
    /\ rejected = 0
    /\ hpc = "for"
    /\ num_done = 0
    /\ frame_list = << >>
    /\ deleted = {}
    /\ AnimOff
    /\ StairsOff
    /\ FnOff

NextHang ==
    \/ HangGenerate \/ AttemptPlace \/ AttemptOverlap \/ Exhaust
    \/ HangDelete \/ HangKeep \/ HangReturn

SpecHang == InitHang /\ [][NextHang]_vars

---------------------------------------------------------------------------
(* animate_ball (src/ball_manager.py)                                      *)
(*                                                                         *)
(* Waypoint coordinates are integers.  The normalized time t of a sample   *)
(* is the fraction TNum / total_frames; positions are kept as numerators   *)
(* over PosDen and scales as numerators over ScaleDen, so that every value *)
(* the source computes is an integer here and equality is exact.           *)

(* Program constants. *)
fps == 25
duration == 10
bounce_height == 5
bounce_factor == 4
\* squash_factor = 0.3, in tenths
squash_factor == 3

total_frames == fps * duration

\* The most waypoints a sequence of the exhaustive specification has.
MaxPoints == 4

\* The waypoints the sequences are made of.
Points == {<<0, 0, 0>>, <<10, 4, -6>>}

\* The colours random.random() x 3 of line 107 is sampled at, in tenths.
Colors == {<<0, 0, 0>>, <<5, 9, 2>>}
Red == <<10, 0, 0>>

PosDen   == 4 * total_frames * total_frames
ScaleDen == 10 * bounce_height * PosDen

\* A waypoint, written over coord_den, as a position over PosDen.
Exact(pt) ==
    <<pt[1] * (PosDen \div coord_den), pt[2] * (PosDen \div coord_den),
      pt[3] * (PosDen \div coord_den)>>

IdentityScale == <<ScaleDen, ScaleDen, ScaleDen>>

\* The pairs <<num_points, i>>, num_points <= 38, for which the double
\* i * (total_frames / (num_points - 1)) is the double just below the
\* integer the exact product is: 19 * (250 / 19) = 249.99999999999997.
DoubleBelow == {<<20, 19>>}

\* int(i * interval) of line 79, interval = total_frames / (num_points - 1).
IntTimesInterval(i, num_points) ==
    LET exact == (i * total_frames) \div (num_points - 1)
    IN  IF <<num_points, i>> \in DoubleBelow /\ (i * total_frames) % (num_points - 1) = 0
        THEN exact - 1
        ELSE exact

\* Line 80: t = (frame - i * interval) / interval, as a numerator over
\* total_frames.
TNum(fr, i, num_points) == fr * (num_points - 1) - i * total_frames

\* get_interpolated_vals: (1 - t) * start + t * end for one axis, over PosDen
\* (a and b are over coord_den, which divides 4 * total_frames).
Lerp(tn, a, b) ==
    ((4 * total_frames) \div coord_den) * ((total_frames - tn) * a + tn * b)

get_interpolated_vals(tn, _start_pt, _end_pt) ==
    <<Lerp(tn, _start_pt[1], _end_pt[1]),
      Lerp(tn, _start_pt[2], _end_pt[2]),
      Lerp(tn, _start_pt[3], _end_pt[3])>>

\* Line 86: bounce_height * (1 - bounce_factor * (t - 0.5) ** 2), over PosDen.
Bounce(tn) ==
    bounce_height * (PosDen - bounce_factor * (2 * tn - total_frames) * (2 * tn - total_frames))

\* SamplePos with the bounce added as it is, negative or not.
SamplePos_unclipped(tn, _start_pt, _end_pt) ==
    LET v == get_interpolated_vals(tn, _start_pt, _end_pt)
    IN  <<v[1], v[2] + Bounce(tn), v[3]>>

\* Line 87: the position that is keyed.
SamplePos(tn, _start_pt, _end_pt) ==
    LET v == get_interpolated_vals(tn, _start_pt, _end_pt)
    IN  <<v[1], v[2] + Max(0, Bounce(tn)), v[3]>>

\* SampleScale with the stretch twice the squash.
SampleScale_double_stretch(tn) ==
    LET bounce   == Bounce(tn)
        scale_xz == IF bounce > 0 THEN ScaleDen - squash_factor * bounce
                                  ELSE ScaleDen + squash_factor * bounce_height * PosDen
        scale_y  == IF bounce > 0 THEN ScaleDen + 2 * squash_factor * bounce
                                  ELSE ScaleDen - squash_factor * bounce_height * PosDen
    IN  <<scale_xz, scale_y, scale_xz>>

\* SampleScale with scaleZ keyed from scale_y.
SampleScale_z_from_y(tn) ==
    LET bounce   == Bounce(tn)
        scale_xz == IF bounce > 0 THEN ScaleDen - squash_factor * bounce
                                  ELSE ScaleDen + squash_factor * bounce_height * PosDen
        scale_y  == IF bounce > 0 THEN ScaleDen + squash_factor * bounce
                                  ELSE ScaleDen - squash_factor * bounce_height * PosDen
    IN  <<scale_xz, scale_y, scale_y>>

\* Line 90-95 and 102-104: <<scaleX, scaleY, scaleZ>> over ScaleDen;
\* squash_factor * (bounce / bounce_height) is squash_factor * Bounce(tn)
\* over ScaleDen.
SampleScale(tn) ==
    LET bounce   == Bounce(tn)
        scale_xz == IF bounce > 0 THEN ScaleDen - squash_factor * bounce
                                  ELSE ScaleDen + squash_factor * bounce_height * PosDen
        scale_y  == IF bounce > 0 THEN ScaleDen + squash_factor * bounce
                                  ELSE ScaleDen - squash_factor * bounce_height * PosDen
    IN  <<scale_xz, scale_y, scale_xz>>

\* cmds.setKeyframe at frame f: a key set at a frame replaces the one there.
\* loop is the set of segments whose loop has set a key at the frame.
SetKey(ks, f, rec) ==
    [g \in (DOMAIN ks) \cup {f} |-> IF g = f THEN rec ELSE ks[g]]

LoopOf(ks, f) == IF f \in DOMAIN ks THEN ks[f].loop ELSE {}

num_points == Len(step_top_coords)

\* AnimIndexError raised after the colour of frame 0 has been keyed.
AnimIndexError_after_color ==
    /\ apc = "start"
    /\ num_points = 0
    /\ color_keys' = Append(color_keys, [num |-> 0, den |-> 1, below |-> FALSE, color |-> Red])
    /\ apc' = "error"
    /\ UNCHANGED <<step_top_coords, seg, frame, ball_translate, keys, palette, packVars, extraVars>>

\* Line 57: _step_top_coords[0] of an empty list raises IndexError, before
\* cmds.xform is called.
AnimIndexError ==
    /\ apc = "start"
    /\ num_points = 0
    /\ apc' = "error"
    /\ UNCHANGED <<step_top_coords, seg, frame, ball_translate, keys, color_keys,
                   palette, packVars, extraVars>>

\* Line 49-71: the position, scale and colour keyed at frame 0.
AnimEntry ==
    /\ apc = "start"
    /\ num_points > 0
    /\ ball_translate' = Exact(step_top_coords[1])
    /\ keys' = SetKey(keys, 0, [translate |-> Exact(step_top_coords[1]),
                                scale     |-> IdentityScale,
                                by        |-> "first",
                                loop      |-> {},
                                t         |-> 0])
    /\ color_keys' = Append(color_keys, [num |-> 0, den |-> 1, below |-> FALSE, color |-> Red])
    /\ seg' = 0
    /\ apc' = "outer"
    /\ UNCHANGED <<step_top_coords, frame, palette, packVars, extraVars>>

\* Line 74-79: the next segment, and the first frame of its range.
SegmentBegin ==
    /\ apc = "outer"
    /\ seg < num_points - 1
    /\ frame' = IntTimesInterval(seg, num_points)
    /\ apc' = "inner"
    /\ UNCHANGED <<step_top_coords, seg, ball_translate, keys, color_keys, palette, packVars, extraVars>>

\* KeyFrameStep with the end of the range included.
KeyFrameStep_inclusive ==
    /\ apc = "inner"
    /\ frame <= IntTimesInterval(seg + 1, num_points)
    /\ LET tn  == TNum(frame, seg, num_points)
           pos == SamplePos(tn, step_top_coords[seg + 1], step_top_coords[seg + 2])
       IN  /\ ball_translate' = pos
           /\ keys' = SetKey(keys, frame, [translate |-> pos,
                                           scale     |-> SampleScale(tn),
                                           by        |-> "loop",
                                           loop      |-> LoopOf(keys, frame) \cup {seg},
                                           t         |-> tn])
    /\ frame' = frame + 1
    /\ UNCHANGED <<step_top_coords, apc, seg, color_keys, palette, packVars, extraVars>>

\* Line 79-104: one frame of the segment's range.
KeyFrameStep ==
    /\ apc = "inner"
    /\ frame < IntTimesInterval(seg + 1, num_points)
    /\ LET tn  == TNum(frame, seg, num_points)
           pos == SamplePos(tn, step_top_coords[seg + 1], step_top_coords[seg + 2])
       IN  /\ ball_translate' = pos
           /\ keys' = SetKey(keys, frame, [translate |-> pos,
                                           scale     |-> SampleScale(tn),
                                           by        |-> "loop",
                                           loop      |-> LoopOf(keys, frame) \cup {seg},
                                           t         |-> tn])
    /\ frame' = frame + 1
    /\ UNCHANGED <<step_top_coords, apc, seg, color_keys, palette, packVars, extraVars>>

\* LandColor setting and keying the colour on the ball's scale, at the frame
\* keyed last, as well as on the shader.
LandColor_on_ball ==
    /\ apc = "inner"
    /\ frame >= IntTimesInterval(seg + 1, num_points)
    /\ \E color \in palette :
          /\ color_keys' = Append(color_keys,
                                  [num   |-> (seg + 1) * total_frames,
                                   den   |-> num_points - 1,
                                   below |-> <<num_points, seg + 1>> \in DoubleBelow,
                                   color |-> color])
          /\ keys' = [keys EXCEPT ![frame - 1].scale =
                          <<color[1] * ScaleDen, color[2] * ScaleDen, color[3] * ScaleDen>>]
    /\ seg' = seg + 1
    /\ apc' = "outer"
    /\ UNCHANGED <<step_top_coords, frame, ball_translate, palette, packVars, extraVars>>

\* LandColor keying a colour on interior waypoints only.
LandColor_interior ==
    /\ apc = "inner"
    /\ frame >= IntTimesInterval(seg + 1, num_points)
    /\ IF seg + 1 < num_points - 1
       THEN \E color \in palette :
               color_keys' = Append(color_keys,
                                    [num   |-> (seg + 1) * total_frames,
                                     den   |-> num_points - 1,
                                     below |-> <<num_points, seg + 1>> \in DoubleBelow,
                                     color |-> color])
       ELSE color_keys' = color_keys
    /\ seg' = seg + 1
    /\ apc' = "outer"
    /\ UNCHANGED <<step_top_coords, frame, ball_translate, keys, palette, packVars, extraVars>>

\* Line 106-109: the range is used up; the landing colour is keyed at
\* (i + 1) * interval.
LandColor ==
    /\ apc = "inner"
    /\ frame >= IntTimesInterval(seg + 1, num_points)
    /\ \E color \in palette :
          color_keys' = Append(color_keys,
                               [num   |-> (seg + 1) * total_frames,
                                den   |-> num_points - 1,
                                below |-> <<num_points, seg + 1>> \in DoubleBelow,
                                color |-> color])
    /\ seg' = seg + 1
    /\ apc' = "outer"
    /\ UNCHANGED <<step_top_coords, frame, ball_translate, keys, palette, packVars, extraVars>>

\* AnimFinish keying total_frames only after a loop of one segment or more.
AnimFinish_unless_single ==
    /\ apc = "outer"
    /\ seg >= num_points - 1
    /\ ball_translate' = Exact(step_top_coords[num_points])
    /\ keys' = IF num_points = 1
               THEN keys
               ELSE SetKey(keys, total_frames,
                           [translate |-> Exact(step_top_coords[num_points]),
                            scale     |-> IdentityScale,
                            by        |-> "last",
                            loop      |-> LoopOf(keys, total_frames),
                            t         |-> 0])
    /\ apc' = "done"
    /\ UNCHANGED <<step_top_coords, seg, frame, color_keys, palette, packVars, extraVars>>

\* Line 111-118: the last waypoint and the identity scale keyed at total_frames.
AnimFinish ==
    /\ apc = "outer"
    /\ seg >= num_points - 1
    /\ ball_translate' = Exact(step_top_coords[num_points])
    /\ keys' = SetKey(keys, total_frames, [translate |-> Exact(step_top_coords[num_points]),
                                           scale     |-> IdentityScale,
                                           by        |-> "last",
                                           loop      |-> LoopOf(keys, total_frames),
                                           t         |-> 0])
    /\ apc' = "done"
    /\ UNCHANGED <<step_top_coords, seg, frame, color_keys, palette, packVars, extraVars>>

\* No packing run is in progress.
PackOff ==
    /\ frame_data_list = << >>
    /\ pc = "idle"
    /\ attempt = 0
    /\ fr_width = 0
    /\ fr_height = 0
    /\ wall_size = 0
    /\ max_attempts = 0
    /\ grid = 1
    /\ ret = "none"
    /\ entry_list = << >>
    /\ draws = 0
    /\ rejected = 0
    /\ hpc = "off"
    /\ num_done = 0
    /\ frame_list = << >>
    /\ deleted = {}

\* animate_ball called with any sequence of at most MaxPoints waypoints.
InitAnim ==
    /\ PackOff
    /\ step_top_coords \in UNION {[1..n -> Points] : n \in 0..MaxPoints}
    /\ apc = "start"
    /\ seg = 0
    /\ frame = 0
    /\ ball_translate = <<0, 0, 0>>
    /\ keys = << >>
    /\ color_keys = << >>
    /\ palette = Colors
    /\ earlier = << >>
    /\ coord_den = 1
    /\ StairsOff
    /\ FnOff

NextAnim ==
    \/ AnimIndexError \/ AnimEntry \/ SegmentBegin \/ KeyFrameStep
    \/ LandColor \/ AnimFinish

SpecAnim == InitAnim /\ [][NextAnim]_vars

\* animate_ball called with the 19 waypoints of the scene (18 steps and the
\* first one again) and with 20, the fewest for which a product i * interval
\* is rounded below its integer value; one colour.
LongLengths == {19, 20}
StairPath(n) == [k \in 1..n |-> <<k, n - k, -k>>]

InitLong ==
    /\ PackOff
    /\ step_top_coords \in {StairPath(n) : n \in LongLengths}
    /\ apc = "start"
    /\ seg = 0
    /\ frame = 0
    /\ ball_translate = <<0, 0, 0>>
    /\ keys = << >>
    /\ color_keys = << >>
    /\ palette = {Red}
    /\ earlier = << >>
    /\ coord_den = 1
    /\ StairsOff
    /\ FnOff

NextLong ==
    \/ AnimEntry \/ SegmentBegin \/ KeyFrameStep \/ LandColor \/ AnimFinish

SpecLong == InitLong /\ [][NextLong]_vars

\* animate_ball called a second time, on a new ball and shader, with the
\* waypoints of the first call; what the first call keyed is kept aside.
CallAgain ==
    /\ apc = "done"
    /\ Len(earlier) = 0
    /\ earlier' = <<[keys |-> keys, color_keys |-> color_keys]>>
    /\ apc' = "start"
    /\ seg' = 0
    /\ frame' = 0
    /\ ball_translate' = <<0, 0, 0>>
    /\ keys' = << >>
    /\ color_keys' = << >>
    /\ UNCHANGED <<step_top_coords, palette, packVars, coord_den, stairVars, fnVars>>

\* The waypoint sequences of the two calls: one, two and four waypoints
\* (250 / 3 is not an integer).
TwiceLengths == {1, 2, 4}

InitTwice ==
    /\ PackOff
    /\ step_top_coords \in {StairPath(n) : n \in TwiceLengths}
    /\ apc = "start"
    /\ seg = 0
    /\ frame = 0
    /\ ball_translate = <<0, 0, 0>>
    /\ keys = << >>
    /\ color_keys = << >>
    /\ palette = Colors
    /\ earlier = << >>
    /\ coord_den = 1
    /\ StairsOff
    /\ FnOff

NextTwice ==
    \/ AnimEntry \/ SegmentBegin \/ KeyFrameStep \/ LandColor \/ AnimFinish
    \/ CallAgain

SpecTwice == InitTwice /\ [][NextTwice]_vars

---------------------------------------------------------------------------
(* generate_stairs of src/scripts/escher_stairs.py, then get_stairs_info   *)
(* and setup_ball_animation of src/ball_manager.py.  Lengths are integers  *)
(* in twentieths of a scene unit (the rise 0.25 is 5, the extrusion 0.4 is *)
(* 8).  x and z are written along the axes of the stairs group, which line *)
(* 117 turns by 225 degrees about the vertical; heights are not changed by *)
(* the turn.                                                               *)

StairDen == 20

SQ_STEP_SIZE == 2 * StairDen
BALL_RADIUS == 1 * StairDen
first_step_height == 20 * StairDen
step_rise == 5
first_step_ltz == 8
num_flights == 0

\* Lines 109-112: the arguments of the four calls of generate_flight_of_stairs.
Flights ==
    << [x_delta |-> 0,             z_delta |-> -SQ_STEP_SIZE, num_steps_in_flight |-> 6,
        flight_num |-> num_flights + 1],
       [x_delta |-> SQ_STEP_SIZE,  z_delta |-> 0,             num_steps_in_flight |-> 5,
        flight_num |-> num_flights + 1],
       [x_delta |-> 0,             z_delta |-> SQ_STEP_SIZE,  num_steps_in_flight |-> 4,
        flight_num |-> num_flights + 1],
       [x_delta |-> -SQ_STEP_SIZE, z_delta |-> 0,             num_steps_in_flight |-> 2,
        flight_num |-> num_flights + 1] >>

\* The name Maya gives a node created with a name that ends in n: that
\* name, or if it is taken the next one, counting up, that is free.
UniqueNumber(n, taken) ==
    CHOOSE m \in n .. (n + Cardinality(taken)) :
        /\ m \notin taken
        /\ \A k \in n .. (m - 1) : k \in taken

\* generate_step: a cube of height _step_height standing on y = 0 at
\* coord_dict; ltz is the extrusion of its front face.
generate_step(_step_height, _coord_dict, ltz) ==
    [h |-> _step_height, x |-> _coord_dict[1], z |-> _coord_dict[2], front |-> ltz]

\* The world bounding box of a step: <<xmin, ymin, zmin, xmax, ymax, zmax>>.
bounding_box(cube) ==
    <<cube.x - SQ_STEP_SIZE \div 2, 0, cube.z - SQ_STEP_SIZE \div 2,
      cube.x + SQ_STEP_SIZE \div 2, cube.h, cube.z + SQ_STEP_SIZE \div 2 + cube.front>>

get_top_centre(cube) ==
    LET bb == bounding_box(cube)
    IN  <<(bb[1] + bb[4]) \div 2, bb[5] + BALL_RADIUS, (bb[3] + bb[6]) \div 2>>

\* Lines 96-106: the first step, renamed First_Step and extruded.
StairsFirstStep ==
    /\ spc = "first"
    /\ cubes' = <<generate_step(step_height, coord_dict, first_step_ltz)>>
    /\ step_height' = step_height + step_rise
    /\ flight_call' = 1
    /\ num_steps' = 0
    /\ steps' = << >>
    /\ spc' = "flight"
    /\ UNCHANGED <<coord_dict, groups, packVars, animVars, earlier, coord_den, fnVars>>

\* FlightStep with the loop going on while num_steps <= _num_steps_in_flight.
FlightStep_one_more ==
    /\ spc = "flight"
    /\ flight_call <= Len(Flights)
    /\ num_steps <= Flights[flight_call].num_steps_in_flight
    /\ LET moved == <<coord_dict[1] + Flights[flight_call].x_delta,
                      coord_dict[2] + Flights[flight_call].z_delta>>
       IN  /\ coord_dict' = moved
           /\ cubes' = Append(cubes, generate_step(step_height, moved, 0))
    /\ step_height' = step_height + step_rise
    /\ steps' = Append(steps, Len(cubes) + 1)
    /\ num_steps' = num_steps + 1
    /\ UNCHANGED <<spc, flight_call, groups, packVars, animVars, earlier, coord_den, fnVars>>

\* Lines 73-78: one more step of the flight.
FlightStep ==
    /\ spc = "flight"
    /\ flight_call <= Len(Flights)
    /\ num_steps < Flights[flight_call].num_steps_in_flight
    /\ LET moved == <<coord_dict[1] + Flights[flight_call].x_delta,
                      coord_dict[2] + Flights[flight_call].z_delta>>
       IN  /\ coord_dict' = moved
           /\ cubes' = Append(cubes, generate_step(step_height, moved, 0))
    /\ step_height' = step_height + step_rise
    /\ steps' = Append(steps, Len(cubes) + 1)
    /\ num_steps' = num_steps + 1
    /\ UNCHANGED <<spc, flight_call, groups, packVars, animVars, earlier, coord_den, fnVars>>

\* Lines 80-81: the flight's steps are grouped under the requested name,
\* made unique by Maya, and the call returns.
FlightGroup ==
    /\ spc = "flight"
    /\ flight_call <= Len(Flights)
    /\ num_steps >= Flights[flight_call].num_steps_in_flight
    /\ LET n == UniqueNumber(Flights[flight_call].flight_num, DOMAIN groups)
       IN  groups' = [g \in (DOMAIN groups) \cup {n} |->
                         IF g = n THEN [children  |-> steps,
                                        requested |-> Flights[flight_call].flight_num,
                                        call      |-> flight_call]
                                  ELSE groups[g]]
    /\ flight_call' = flight_call + 1
    /\ num_steps' = 0
    /\ steps' = << >>
    /\ UNCHANGED <<spc, step_height, coord_dict, cubes, packVars, animVars, earlier,
                   coord_den, fnVars>>

\* Lines 114-119: the staircase is grouped and turned.
StairsGroup ==
    /\ spc = "flight"
    /\ flight_call > Len(Flights)
    /\ spc' = "built"
    /\ UNCHANGED <<step_height, coord_dict, num_steps, steps, flight_call, cubes, groups,
                   packVars, animVars, earlier, coord_den, fnVars>>

\* Line 165: the flight numbers get_stairs_info looks up.
FlightNames == 1 .. 4

\* Lines 167-170: the top centres of the children of one flight group.
FlightTops(flight_idx) ==
    [j \in 1 .. Len(groups[flight_idx].children) |->
        get_top_centre(cubes[groups[flight_idx].children[j]])]

\* Line 189: the values of get_stairs_info() flattened, First_Step first.
TopCentres ==
    <<get_top_centre(cubes[1])>> \o FlightTops(1) \o FlightTops(2)
        \o FlightTops(3) \o FlightTops(4)

Reverse(s) == [k \in 1 .. Len(s) |-> s[Len(s) + 1 - k]]

\* ClosedLoop without the reversal.
ClosedLoop_unreversed(tops) == Append(tops, tops[1])

\* ClosedLoop without the first point appended.
ClosedLoop_open(tops) == Reverse(tops)

\* Lines 190-191: the first point appended, then the list reversed.
ClosedLoop(tops) ==
    Reverse(Append(tops, tops[1]))

\* ball_manager.py 163-195: get_stairs_info looks the four flights up by
\* name (a name that is not in the scene raises), setup_ball_animation
\* closes and reverses the list, moves the ball and calls animate_ball.
SetupBall ==
    /\ spc = "built"
    /\ IF FlightNames \subseteq DOMAIN groups
       THEN /\ step_top_coords' = ClosedLoop(TopCentres)
            /\ ball_translate' = Exact(ClosedLoop(TopCentres)[1])
            /\ apc' = "start"
            /\ spc' = "animate"
       ELSE /\ spc' = "error"
            /\ UNCHANGED <<step_top_coords, ball_translate, apc>>
    /\ UNCHANGED <<seg, frame, keys, color_keys, palette, step_height, coord_dict,
                   num_steps, steps, flight_call, cubes, groups, packVars, earlier,
                   coord_den, fnVars>>

\* main.py 45 and 78: generate_stairs in an empty scene, one colour.
InitStairs ==
    /\ PackOff
    /\ step_top_coords = << >>
    /\ apc = "off"
    /\ seg = 0
    /\ frame = 0
    /\ ball_translate = <<0, 0, 0>>
    /\ keys = << >>
    /\ color_keys = << >>
    /\ palette = {Red}
    /\ earlier = << >>
    /\ coord_den = StairDen
    /\ spc = "first"
    /\ step_height = first_step_height
    /\ coord_dict = <<-6 * StairDen, 4 * StairDen>>
    /\ num_steps = 0
    /\ steps = << >>
    /\ flight_call = 0
    /\ cubes = << >>
    /\ groups = << >>
    /\ FnOff

NextStairs ==
    \/ StairsFirstStep \/ FlightStep \/ FlightGroup \/ StairsGroup \/ SetupBall
    \/ AnimEntry \/ SegmentBegin \/ KeyFrameStep \/ LandColor \/ AnimFinish

SpecStairs == InitStairs /\ [][NextStairs]_vars

---------------------------------------------------------------------------
(* is_overlap as the interpreter evaluates it, in doubles, on rectangles   *)
(* <<x, y, width, height>> written in tenths of a scene unit.  A           *)
(* comparison whose two sides differ by a tenth or more comes out as in    *)
(* exact arithmetic.  When the two sides are equal in exact arithmetic the *)
(* doubles of the two sides can differ in the last place, and the          *)
(* comparison can come out true: the two sets below list the operands      *)
(* <<p, s, q, t>> from SymRects for which it does.                         *)

SymRects ==
    { <<-26, 0, 10, 20>>, <<-17, 0, 4, 20>>, <<-14, 0, 10, 20>>, <<-9, 0, 20, 20>>,
      <<0, 0, 10, 20>>, <<21, 0, 80, 20>>, <<0, 30, 10, 20>>, <<-26, 40, 10, 20>>,
      <<10, 0, 10, 20>>, <<22, 0, 10, 20>> }

\* (p + (s / 2) + 0.2) < (q - (t / 2)) is true in doubles, the sides being equal.
DoublesLess ==
    { <<-26, 10, -17, 4>>, <<-26, 10, -14, 10>>, <<-26, 10, -9, 20>>,
      <<-26, 10, 21, 80>>, <<10, 10, 22, 10>> }

\* (p - (s / 2) - 0.2) > (q + (t / 2)) is true in doubles, the sides being equal.
DoublesGreater == { <<22, 10, 10, 10>> }

\* Lines 75 and 77: (p + (s / 2) + min_dist_between_fr) < (q - (t / 2)).
BelowFrame(p, s, q, t) ==
    LET lhs == p + s \div 2 + 2 * min_dist_between_fr
        rhs == q - t \div 2
    IN  IF lhs = rhs THEN <<p, s, q, t>> \in DoublesLess ELSE lhs < rhs

\* Lines 76 and 78: (p - (s / 2) - min_dist_between_fr) > (q + (t / 2)).
AboveFrame(p, s, q, t) ==
    LET lhs == p - s \div 2 - 2 * min_dist_between_fr
        rhs == q + t \div 2
    IN  IF lhs = rhs THEN <<p, s, q, t>> \in DoublesGreater ELSE lhs > rhs

\* Lines 75-79: one iteration of the loop, candidate c against frame_data.
overlaps_frame_doubles(c, frame_data) ==
    ~ ( \/ BelowFrame(c[1], c[3], frame_data[1], frame_data[3])
        \/ AboveFrame(c[1], c[3], frame_data[1], frame_data[3])
        \/ BelowFrame(c[2], c[4], frame_data[2], frame_data[4])
        \/ AboveFrame(c[2], c[4], frame_data[2], frame_data[4]) )

is_overlap_doubles(c, _frame_data_list) ==
    \E k \in 1 .. Len(_frame_data_list) : overlaps_frame_doubles(c, _frame_data_list[k])

\* is_overlap applied to a against [b], to b against [a], and to a against [].
ApplyIsOverlap ==
    /\ Len(fn_in) = 2
    /\ fn_out = << >>
    /\ fn_out' = << is_overlap_doubles(fn_in[1], <<fn_in[2]>>),
                    is_overlap_doubles(fn_in[2], <<fn_in[1]>>),
                    is_overlap_doubles(fn_in[1], << >>) >>
    /\ UNCHANGED <<fn_in, packVars, animVars, earlier, coord_den, stairVars>>

InitSym ==
    /\ PackOff
    /\ AnimOff
    /\ StairsOff
    /\ fn_in \in {<<a, b>> : a \in SymRects, b \in SymRects}
    /\ fn_out = << >>

NextSym == ApplyIsOverlap

SpecSym == InitSym /\ [][NextSym]_vars

---------------------------------------------------------------------------
(* The frame-edge shader index of hang_frames, lines 175-178.  Heights are *)
(* in fifths of a scene unit, as SQ_WALL_SIZE.                             *)

MaxShaders == 3

\* Heights below, on and above the wall's range, and around the places
\* where the index steps.
Heights == {-335, -150, -5, -1, 0, 1, 100, 167, 168, 330, 335, 336, 670, 700}

\* int(): the quotient n / d rounded towards zero (d > 0).
TruncDiv(n, d) == IF n >= 0 THEN n \div d ELSE -((-n) \div d)

\* shader_index without the clamp of line 178.
shader_index_unclamped(y_position, len_shaders) ==
    TruncDiv((SQ_WALL_SIZE - y_position) * len_shaders, SQ_WALL_SIZE)

\* Lines 176-178: int((1 - y_position / max_height) * len), clamped.
shader_index(y_position, len_shaders) ==
    LET raw == TruncDiv((SQ_WALL_SIZE - y_position) * len_shaders, SQ_WALL_SIZE)
    IN  Max(0, Min(raw, len_shaders - 1))

\* The index computed for two frames hung on a wall with the same shaders.
ApplyShaderIndex ==
    /\ Len(fn_in) = 3
    /\ fn_out = << >>
    /\ fn_out' = << shader_index(fn_in[1], fn_in[3]), shader_index(fn_in[2], fn_in[3]) >>
    /\ UNCHANGED <<fn_in, packVars, animVars, earlier, coord_den, stairVars>>

InitShader ==
    /\ PackOff
    /\ AnimOff
    /\ StairsOff
    /\ fn_in \in {<<y1, y2, n>> : y1 \in Heights, y2 \in Heights, n \in 1 .. MaxShaders}
    /\ fn_out = << >>

NextShader == ApplyShaderIndex

SpecShader == InitShader /\ [][NextShader]_vars

---------------------------------------------------------------------------
(* Vocabulary of the properties. *)

Abs(n) == IF n < 0 THEN -n ELSE n

\* The gap between the facing edges of two extents along one axis: the
\* distance of the centres less the two half extents.
Gap(c1, size1, c2, size2) == Abs(c1 - c2) - ((size1 \div 2) + (size2 \div 2))

GapX(a, b) == Gap(a[1], a[3], b[1], b[3])
GapY(a, b) == Gap(a[2], a[4], b[2], b[4])

IsPrefix(s, t) == Len(s) <= Len(t) /\ SubSeq(t, 1, Len(s)) = s

InCall == pc \in {"loop", "returned"}

\* The request of the call in progress fits the wall / is a valid request.
Fits(w, h, W) == 0 < w /\ w <= W /\ 0 < h /\ h <= W
RequestFits == Fits(fr_width, fr_height, wall_size)

---------------------------------------------------------------------------
(* C1: every two accepted rectangles of a run are separated along at least *)
(* one axis by a gap strictly greater than the clearance.                  *)
C1_AcceptedSeparated ==
    \A i \in 1..Len(frame_data_list) : \A j \in 1..Len(frame_data_list) :
        i < j =>
            \/ GapX(frame_data_list[j], frame_data_list[i]) > min_dist_between_fr
            \/ GapY(frame_data_list[j], frame_data_list[i]) > min_dist_between_fr

\* Two accepted rectangles that face each other across the smallest gap the
\* grid has above the clearance, and are not separated along the other axis.
C1_Witness ==
    \E i \in 1..Len(frame_data_list) : \E j \in 1..Len(frame_data_list) :
        /\ i < j
        /\ GapX(frame_data_list[j], frame_data_list[i]) = min_dist_between_fr + 1
        /\ GapY(frame_data_list[j], frame_data_list[i]) <= min_dist_between_fr

(* C2: the accepted list is append-only: every step leaves the old list a  *)
(* prefix of the new one and adds at most one entry, and at every point of *)
(* a call the list at its entry is a prefix of the list, which is at most  *)
(* one entry longer.                                                       *)
C2_AppendOnly ==
    /\ [](InCall => /\ IsPrefix(entry_list, frame_data_list)
                    /\ Len(frame_data_list) <= Len(entry_list) + 1)
    /\ [][/\ IsPrefix(frame_data_list, frame_data_list')
          /\ Len(frame_data_list') <= Len(frame_data_list) + 1]_vars

\* A call that added a third entry to a list of two.
C2_Witness ==
    /\ pc = "returned"
    /\ Len(entry_list) = 2
    /\ Len(frame_data_list) = 3

(* C3: a call returns True exactly when one entry carrying the requested   *)
(* width and height was appended to the list it was entered with, and      *)
(* False exactly when the list is as it was at entry.                      *)
C3_NoPartialOutcome ==
    pc = "returned" =>
        /\ ret \in {"True", "False"}
        /\ ret = "True" <=>
              /\ Len(frame_data_list) = Len(entry_list) + 1
              /\ IsPrefix(entry_list, frame_data_list)
              /\ frame_data_list[Len(frame_data_list)][3] = fr_width
              /\ frame_data_list[Len(frame_data_list)][4] = fr_height
        /\ ret = "False" <=> frame_data_list = entry_list

\* Both outcomes on a list that is not empty; the widths and heights of the
\* request differ, so the entry shows which is which.
C3_Witness ==
    /\ pc = "returned"
    /\ ret = "True"
    /\ Len(entry_list) > 0
    /\ fr_width # fr_height

(* C4: a call draws at most max_attempts candidates; it returns True at    *)
(* the first candidate that overlaps nothing and draws no more, and it     *)
(* returns False only after exactly max_attempts overlapping candidates.   *)
(* While the loop runs one of its steps can always be taken, and each draw *)
(* uses up one iteration of the budget.                                    *)
C4_BoundedAttempts ==
    /\ draws <= max_attempts
    /\ draws - rejected \in {0, 1}
    /\ draws - rejected = 1 <=> (pc = "returned" /\ ret = "True")
    /\ (pc = "returned" /\ ret = "False") =>
           (draws = max_attempts /\ rejected = max_attempts)
    /\ pc = "loop" =>
           /\ attempt = draws
           /\ ENABLED (AttemptPlace \/ AttemptOverlap \/ Exhaust)

\* Under the budget of scene.py, a call that succeeded with its last attempt.
C4_Witness ==
    /\ max_attempts = max_attempts_scene
    /\ pc = "returned"
    /\ ret = "True"
    /\ rejected = max_attempts_scene - 1

\* Under the budget of impossibleStairs.py, a call that used it up.
C4_WitnessFailure ==
    /\ max_attempts = max_attempts_stairs
    /\ pc = "returned"
    /\ ret = "False"
    /\ draws = max_attempts_stairs

(* C5: in hang_frames a failed placement deletes that frame and the loop   *)
(* goes on: hang_frames always can take its next step until it returns, it *)
(* returns only when all num_frames candidates are processed, every        *)
(* candidate processed is either kept or deleted, and between calls the    *)
(* list it returns is as long as the accepted list.                        *)
C5_FailureIsNotAnError ==
    /\ hpc # "done" => ENABLED NextHang
    /\ (hpc = "call" /\ pc = "returned" /\ ret = "False") => ENABLED HangDelete
    /\ hpc = "done" => num_done = NumFrames
    /\ hpc \in {"for", "done"} =>
           /\ Len(frame_list) = Len(frame_data_list)
           /\ {frame_list[k] : k \in 1..Len(frame_list)} \cup deleted = 1..num_done
           /\ {frame_list[k] : k \in 1..Len(frame_list)} \cap deleted = {}
           /\ Len(frame_list) + Cardinality(deleted) = num_done

\* hang_frames returned after a failure that was followed by a success.
C5_Witness ==
    /\ hpc = "done"
    /\ \E d \in deleted : \E k \in 1..Len(frame_list) : d < frame_list[k]

(* C6: a request wider than the wall fails: the call returns False and the *)
(* accepted list is as it was at entry.                                    *)
C6_TooWideFails ==
    (pc = "returned" /\ fr_width > wall_size) =>
        (ret = "False" /\ frame_data_list = entry_list)

(* C7: an invalid request (a width or height that is not positive, or a    *)
(* size larger than the wall) ends in InvalidInput with no candidate drawn *)
(* and the accepted list unchanged.                                        *)
C7_InvalidFailsFast ==
    (InCall /\ ~ RequestFits) =>
        /\ draws = 0
        /\ frame_data_list = entry_list
        /\ pc = "returned" => ret = "InvalidInput"

(* C8: every accepted rectangle whose size fits the wall has its centre in *)
(* [-W/2 + w/2, W/2 - w/2] x [h/2, H - h/2], that is, its box lies inside  *)
(* [-W/2, W/2] x [0, H], with W = H = wall_size.                           *)
C8_AcceptedInsideWall ==
    \A k \in 1..Len(frame_data_list) :
        LET x == frame_data_list[k][1]
            y == frame_data_list[k][2]
            w == frame_data_list[k][3]
            h == frame_data_list[k][4]
        IN  Fits(w, h, wall_size) =>
                /\ 2 * x - w >= - wall_size
                /\ 2 * x + w <= wall_size
                /\ 2 * y - h >= 0
                /\ 2 * y + h <= 2 * wall_size

\* An accepted rectangle narrower than the wall that touches the wall's
\* right edge and its floor.
C8_Witness ==
    \E k \in 1..Len(frame_data_list) :
        /\ Fits(frame_data_list[k][3], frame_data_list[k][4], wall_size)
        /\ frame_data_list[k][3] < wall_size
        /\ 2 * frame_data_list[k][1] + frame_data_list[k][3] = wall_size
        /\ 2 * frame_data_list[k][2] - frame_data_list[k][4] = 0

(* C9: on an empty accepted list a request that fits the wall succeeds     *)
(* whatever is drawn: no candidate is rejected, the call returns True and  *)
(* the list holds exactly the one rectangle of the requested size.         *)
C9_FirstRequestSucceeds ==
    (InCall /\ entry_list = << >> /\ RequestFits) =>
        /\ rejected = 0
        /\ ~ ENABLED AttemptOverlap
        /\ pc = "returned" =>
              /\ ret = "True"
              /\ Len(frame_data_list) = 1
              /\ frame_data_list[1][3] = fr_width
              /\ frame_data_list[1][4] = fr_height

\* The 4 x 4 rectangle placed on the empty wall.
C9_Witness ==
    /\ pc = "returned"
    /\ entry_list = << >>
    /\ fr_width = 4
    /\ fr_height = 4
    /\ ret = "True"

\* The number of w x h rectangles with disjoint interiors that a W x W wall
\* holds: they tile in rows and columns, and none fits when w or h exceeds W.
MaxFit(w, h, W) == (W \div w) * (W \div h)

(* C10: when every accepted rectangle has the same size w x h, the list    *)
(* has no more entries than the wall can hold rectangles of that size.     *)
C10_NeverMoreThanFit ==
    \A r \in Requests :
        (/\ r[1] > 0
         /\ r[2] > 0
         /\ \A k \in 1..Len(frame_data_list) :
               frame_data_list[k][3] = r[1] /\ frame_data_list[k][4] = r[2])
        => Len(frame_data_list) <= MaxFit(r[1], r[2], wall_size)

\* C10 for the sizes that fit the wall, the part of it the code keeps.
C10_FittingSizesNeverMoreThanFit ==
    \A r \in Requests :
        (/\ Fits(r[1], r[2], wall_size)
         /\ \A k \in 1..Len(frame_data_list) :
               frame_data_list[k][3] = r[1] /\ frame_data_list[k][4] = r[2])
        => Len(frame_data_list) <= MaxFit(r[1], r[2], wall_size)

---------------------------------------------------------------------------
\* The candidates <<x, y, w, h>> the call in progress can draw.
Candidates ==
    {<<x, y, fr_width, fr_height>> :
        x \in x_candidates(fr_width, wall_size, grid),
        y \in y_candidates(fr_height, wall_size, grid)}

---------------------------------------------------------------------------
(* Vocabulary of the animation's properties. *)

FirstPoint == step_top_coords[1]
LastPoint == step_top_coords[num_points]

\* The frames at which a key set by the loop of line 79 remains.
LoopFrames == {f \in DOMAIN keys : keys[f].by = "loop"}

(* C12: for two waypoints or more, once animate_ball is done the key at    *)
(* total_frames has the position of the last waypoint and scale (1, 1, 1), *)
(* and at no time has the loop set a key at total_frames.                  *)
C12_LastFrameExact ==
    /\ \A f \in DOMAIN keys : keys[f].loop # {} => f < total_frames
    /\ (apc = "done" /\ num_points >= 2) =>
          /\ total_frames \in DOMAIN keys
          /\ keys[total_frames].translate = Exact(LastPoint)
          /\ keys[total_frames].scale = IdentityScale
          /\ ball_translate = Exact(LastPoint)

\* Done, with three waypoints or more, the last away from the first, and
\* the frame before total_frames keyed by the loop away from the last.
C12_Witness ==
    /\ apc = "done"
    /\ num_points >= 3
    /\ LastPoint # FirstPoint
    /\ keys[total_frames - 1].by = "loop"
    /\ keys[total_frames - 1].translate # Exact(LastPoint)

(* C13: for two waypoints or more, the key that remains at frame 0 once    *)
(* animate_ball is done has the position of the first waypoint and scale   *)
(* (1, 1, 1).                                                              *)
C13_FrameZeroIdentity ==
    (apc = "done" /\ num_points >= 2) =>
        /\ 0 \in DOMAIN keys
        /\ keys[0].translate = Exact(FirstPoint)
        /\ keys[0].scale = IdentityScale

\* What the code leaves at frame 0: the first waypoint, squashed by the
\* loop's sample at t = 0 (lines 93-95 after lines 61-63).
C13_FrameZeroSquashed ==
    (apc = "done" /\ num_points >= 2) =>
        /\ keys[0].translate = Exact(FirstPoint)
        /\ keys[0].by = "loop"
        /\ 10 * keys[0].scale[1] = (10 + squash_factor) * ScaleDen
        /\ 10 * keys[0].scale[2] = (10 - squash_factor) * ScaleDen
        /\ 10 * keys[0].scale[3] = (10 + squash_factor) * ScaleDen

(* C14: for two waypoints or more, every frame keyed by a segment's loop   *)
(* was sampled at a normalized time t with 0 <= t < 1 (t is kept as its    *)
(* numerator over total_frames).                                           *)
C14_NormalizedTimeInUnitInterval ==
    \A f \in LoopFrames : 0 <= keys[f].t /\ keys[f].t < total_frames

\* What the code keeps: t < 1, and t above minus one frame's worth of the
\* segment, negative on the first frame of a segment whose start
\* i * interval is not an integer.
C14_TimeWithinOneFrame ==
    \A f \in LoopFrames :
        /\ keys[f].t < total_frames
        /\ keys[f].t > -(num_points - 1)
        /\ keys[f].t < 0 =>
              \E i \in keys[f].loop :
                  /\ f = IntTimesInterval(i, num_points)
                  /\ (i * total_frames) % (num_points - 1) # 0

\* Line 79: the frames of segment i, range(int(i * interval),
\* int((i + 1) * interval)).
SegmentRange(i) ==
    IntTimesInterval(i, num_points) .. (IntTimesInterval(i + 1, num_points) - 1)

Segments == 0 .. (num_points - 2)

(* C15: for two waypoints or more the segments' frame ranges are pairwise  *)
(* disjoint and their union is 0 .. total_frames - 1, and once             *)
(* animate_ball is done every frame below total_frames has been keyed by   *)
(* exactly one segment.                                                    *)
C15_RangesPartitionFrames ==
    (num_points >= 2 /\ apc \in {"outer", "inner", "done"}) =>
        /\ \A i, j \in Segments : i # j => SegmentRange(i) \cap SegmentRange(j) = {}
        /\ UNION {SegmentRange(i) : i \in Segments} = 0 .. (total_frames - 1)
        /\ apc = "done" =>
              \A f \in 0 .. (total_frames - 1) :
                  f \in DOMAIN keys /\ Cardinality(keys[f].loop) = 1

\* What the code keeps: no frame is keyed by two segments, and a frame
\* below total_frames left without a key is the last one.
C15_RangesDisjoint ==
    (num_points >= 2 /\ apc \in {"outer", "inner", "done"}) =>
        /\ \A i, j \in Segments : i # j => SegmentRange(i) \cap SegmentRange(j) = {}
        /\ \A f \in DOMAIN keys : Cardinality(keys[f].loop) <= 1
        /\ apc = "done" => (0 .. (total_frames - 2)) \subseteq DOMAIN keys

\* The colour keys after the red one of frame 0.
LandingColors == SubSeq(color_keys, 2, Len(color_keys))

(* C16 (as stated): once animate_ball is done it has keyed N - 2 landing   *)
(* colours for N >= 2 waypoints and none for N = 1, the red of frame 0     *)
(* not counted.                                                            *)
C16_OnePerInteriorWaypoint ==
    apc = "done" =>
        Len(LandingColors) = (IF num_points >= 2 THEN num_points - 2 ELSE 0)

(* C16 (amended): animate_ball keys one landing colour per segment, that   *)
(* is per waypoint after the first, the last waypoint included: N - 1      *)
(* landing colours for N >= 1, the k-th at k * interval, after the red     *)
(* keyed at frame 0.                                                       *)
C16_OnePerLaterWaypoint ==
    /\ apc \in {"outer", "inner"} => Len(LandingColors) = seg
    /\ apc \in {"outer", "inner", "done"} =>
          /\ color_keys[1].color = Red
          /\ color_keys[1].num = 0
    /\ apc = "done" =>
          /\ Len(LandingColors) = num_points - 1
          /\ \A k \in 1 .. Len(LandingColors) :
                /\ LandingColors[k].num = k * total_frames
                /\ LandingColors[k].den = num_points - 1
                /\ LandingColors[k].color \in palette

\* Done with four waypoints: three landing colours, the last at total_frames.
C16_Witness ==
    /\ apc = "done"
    /\ num_points = 4
    /\ Len(LandingColors) = 3
    /\ LandingColors[3].num = total_frames * LandingColors[3].den
    /\ LandingColors[1].color # LandingColors[3].color

\* A key holding the waypoint pt at rest.
StaticKey(f, pt) ==
    /\ f \in DOMAIN keys
    /\ keys[f].translate = Exact(pt)
    /\ keys[f].scale = IdentityScale
    /\ keys[f].loop = {}

(* C17 (as stated): with exactly one waypoint, once animate_ball is done   *)
(* the only key is the static one of frame 0: no bounce sample and no key  *)
(* at another frame.                                                       *)
C17_SingleKeyAtZero ==
    (apc = "done" /\ num_points = 1) =>
        /\ DOMAIN keys = {0}
        /\ StaticKey(0, FirstPoint)

(* C17 (amended): with exactly one waypoint animate_ball keys two static   *)
(* samples, at frame 0 and at total_frames, both at the waypoint with      *)
(* scale (1, 1, 1); no bounce sample, no landing colour and no key at any  *)
(* other frame.                                                            *)
C17_StaticAtBothEnds ==
    (num_points = 1) =>
        /\ LoopFrames = {}
        /\ DOMAIN keys \subseteq {0, total_frames}
        /\ Len(color_keys) <= 1
        /\ apc # "inner"
        /\ apc = "done" =>
              /\ DOMAIN keys = {0, total_frames}
              /\ StaticKey(0, FirstPoint)
              /\ StaticKey(total_frames, FirstPoint)
              /\ ball_translate = Exact(FirstPoint)
              /\ Len(color_keys) = 1
              /\ color_keys[1].color = Red

\* Done with one waypoint away from the origin.
C17_Witness ==
    /\ apc = "done"
    /\ num_points = 1
    /\ FirstPoint # <<0, 0, 0>>
    /\ total_frames \in DOMAIN keys

\* The interpolated height of the sample keyed at frame f by segment i, and
\* what the key has above it (both over PosDen).
BaseY(f, i) == Lerp(keys[f].t, step_top_coords[i + 1][2], step_top_coords[i + 2][2])
Offset(f, i) == keys[f].translate[2] - BaseY(f, i)

\* bounce_height over PosDen.
FullHeight == bounce_height * PosDen

(* C18: in every sample keyed by the loop the height added to the          *)
(* interpolated height is max(0, h * (1 - k * (t - 0.5)^2)): it is never   *)
(* negative and never above h, so the keyed y lies between the             *)
(* interpolated y and that plus h; the offset at t = 0 and at t = 1 is not *)
(* above the offset at t = 0.5.                                            *)
C18_BounceOffsetBounded ==
    /\ \A f \in LoopFrames : \A i \in keys[f].loop :
          /\ Offset(f, i) = Max(0, Bounce(keys[f].t))
          /\ Offset(f, i) >= 0
          /\ Offset(f, i) <= FullHeight
          /\ BaseY(f, i) <= keys[f].translate[2]
          /\ keys[f].translate[2] <= BaseY(f, i) + FullHeight
          /\ keys[f].t = 0 => Offset(f, i) = 0
          /\ 2 * keys[f].t = total_frames => Offset(f, i) = FullHeight
    /\ Max(0, Bounce(0)) <= Max(0, Bounce(total_frames \div 2))
    /\ Max(0, Bounce(total_frames)) <= Max(0, Bounce(total_frames \div 2))

\* Keys of the loop at the top of a bounce, part of the way up, and where
\* the parabola is below zero and the offset clipped.
C18_Witness ==
    /\ apc = "done"
    /\ \E f \in LoopFrames : \E i \in keys[f].loop : Offset(f, i) = FullHeight
    /\ \E f \in LoopFrames : \E i \in keys[f].loop :
          Offset(f, i) > 0 /\ Offset(f, i) < FullHeight
    /\ \E f \in LoopFrames : \E i \in keys[f].loop :
          /\ Bounce(keys[f].t) < 0
          /\ Offset(f, i) = 0
          /\ BaseY(f, i) # 0

\* The scale s over ScaleDen, written in tenths: <<13, 7, 13>> is
\* (1.3, 0.7, 1.3).
InTenths(s) == <<10 * s[1], 10 * s[2], 10 * s[3]>>
Tenths(x, y, z) == <<x * ScaleDen, y * ScaleDen, z * ScaleDen>>

(* C19: every sample keyed by the loop follows the squash and stretch      *)
(* rule: with b the unclipped bounce, the scale is (1 - s*b/h, 1 + s*b/h,  *)
(* 1 - s*b/h) if b > 0 and (1 + s, 1 - s, 1 + s) otherwise; scaleX equals  *)
(* scaleZ; at t = 0.5 the offset is h = 5 and the scale (0.7, 1.3, 0.7).   *)
C19_SquashStretchRule ==
    \A f \in LoopFrames : \A i \in keys[f].loop :
        LET b  == Bounce(keys[f].t)
            sc == keys[f].scale
        IN  /\ sc[1] = sc[3]
            /\ b > 0 =>
                  /\ sc[1] = ScaleDen - squash_factor * b
                  /\ sc[2] = ScaleDen + squash_factor * b
            /\ b <= 0 =>
                  InTenths(sc) = Tenths(10 + squash_factor, 10 - squash_factor,
                                        10 + squash_factor)
            /\ 2 * keys[f].t = total_frames =>
                  /\ Offset(f, i) = 5 * PosDen
                  /\ InTenths(sc) = Tenths(7, 13, 7)

\* Two waypoints: frame 125 keyed at t = 0.5, stretched, frame 1 keyed on
\* the way up and frame 0 squashed.
C19_Witness ==
    /\ apc = "done"
    /\ num_points = 2
    /\ 2 * keys[125].t = total_frames
    /\ InTenths(keys[125].scale) = Tenths(7, 13, 7)
    /\ Bounce(keys[1].t) > 0
    /\ keys[1].scale[1] < ScaleDen
    /\ keys[1].scale[2] > ScaleDen
    /\ keys[1].scale[2] < keys[125].scale[2]
    /\ InTenths(keys[0].scale) = Tenths(13, 7, 13)

(* C20: animate_ball called with no waypoint fails with an error, and it   *)
(* does so before any key, position or colour has been written: the call   *)
(* can only raise, and nothing is written before or after.                 *)
C20_EmptyFailsBeforeWriting ==
    /\ (num_points = 0) =>
          /\ apc \in {"start", "error"}
          /\ keys = << >>
          /\ color_keys = << >>
          /\ ball_translate = <<0, 0, 0>>
          /\ apc = "start" => (ENABLED AnimIndexError /\ ~ENABLED AnimEntry)
    /\ apc = "error" => num_points = 0

\* The call with no waypoint has raised.
C20_Witness ==
    /\ apc = "error"
    /\ step_top_coords = << >>
    /\ keys = << >>

\* The colours of a sequence of colour keys, in the order keyed.
ColorsOf(ck) == [k \in 1 .. Len(ck) |-> ck[k].color]

NumSteps == Len(cubes)

(* C22: setup_ball_animation hands animate_ball a closed loop: the top     *)
(* centres of the steps with the first one appended, reversed, so the      *)
(* sequence is one longer than the number of steps, its first and last     *)
(* waypoints are the top centre of First_Step, and the position keyed at   *)
(* frame 0 is the position keyed at total_frames.                          *)
C22_ClosedLoop ==
    /\ spc = "animate" =>
          /\ Len(step_top_coords) = NumSteps + 1
          /\ FirstPoint = get_top_centre(cubes[1])
          /\ LastPoint = get_top_centre(cubes[1])
          /\ \A k \in 1 .. NumSteps :
                step_top_coords[NumSteps + 2 - k] = get_top_centre(cubes[k])
    /\ (spc = "animate" /\ apc = "done") =>
          /\ keys[0].translate = keys[total_frames].translate
          /\ keys[0].translate = Exact(get_top_centre(cubes[1]))
    /\ spc # "error"

\* The animation of the generated staircase is done.
C22_Witness ==
    /\ spc = "animate"
    /\ apc = "done"
    /\ NumSteps = 18
    /\ Len(step_top_coords) = 19
    /\ step_top_coords[2] # step_top_coords[1]

\* The frames after frame `after` whose key has the position of waypoint k
\* (k = 1 for the first), and the least element of a set of frames.
Hits(k, after) ==
    {f \in DOMAIN keys : f > after /\ keys[f].translate = Exact(step_top_coords[k])}

Least(S) == CHOOSE f \in S : \A g \in S : f <= g

RECURSIVE PassesFrom(_, _)
PassesFrom(k, after) ==
    IF k > num_points
    THEN TRUE
    ELSE /\ Hits(k, after) # {}
         /\ PassesFrom(k + 1, Least(Hits(k, after)))

(* C23: for two waypoints or more, once animate_ball is done every         *)
(* waypoint is the position of some key, at frames that increase with the  *)
(* waypoint's index.                                                       *)
C23_PassesEveryWaypoint ==
    (apc = "done" /\ num_points >= 2) => PassesFrom(1, -1)

\* What the code keeps: the first and the last waypoint are keyed, and so
\* is waypoint i when i * interval is a whole frame.
C23_WholeFrameWaypoints ==
    (apc = "done" /\ num_points >= 2) =>
        /\ keys[0].translate = Exact(FirstPoint)
        /\ keys[total_frames].translate = Exact(LastPoint)
        /\ \A i \in Segments :
              (i * total_frames) % (num_points - 1) = 0 =>
                  keys[(i * total_frames) \div (num_points - 1)].translate
                      = Exact(step_top_coords[i + 1])

\* The landing colour key k is at a whole frame, and that frame.
AtWholeFrame(ck) == ck.num % ck.den = 0 /\ ~ ck.below
FrameOf(ck) == ck.num \div ck.den

(* C24: every landing colour is keyed at a whole frame in 1 ..             *)
(* total_frames, and at that frame there is a position key equal to the    *)
(* waypoint landed on (the k-th landing is on waypoint k, counting the     *)
(* first waypoint as 0).                                                   *)
C24_LandingAtWaypointFrame ==
    apc = "done" =>
        \A k \in 1 .. Len(LandingColors) :
            /\ AtWholeFrame(LandingColors[k])
            /\ FrameOf(LandingColors[k]) \in 1 .. total_frames
            /\ FrameOf(LandingColors[k]) \in DOMAIN keys
            /\ keys[FrameOf(LandingColors[k])].translate = Exact(step_top_coords[k + 1])

\* What the code keeps: the k-th landing colour is keyed at time
\* k * interval, in (0, total_frames], a whole frame or not; if it is whole
\* the key of that frame is on the waypoint.
C24_LandingAtSegmentEnd ==
    apc = "done" =>
        \A k \in 1 .. Len(LandingColors) :
            /\ LandingColors[k].num = k * total_frames
            /\ LandingColors[k].den = num_points - 1
            /\ 0 < LandingColors[k].num
            /\ LandingColors[k].num <= total_frames * LandingColors[k].den
            /\ AtWholeFrame(LandingColors[k]) =>
                  keys[FrameOf(LandingColors[k])].translate = Exact(step_top_coords[k + 1])

\* The height of waypoint k.
HeightOf(k) == step_top_coords[k][2]

(* C25 (as stated): in the sequence setup_ball_animation builds for the    *)
(* generated staircase every waypoint is no higher than the one before it, *)
(* the first pair included.                                                *)
C25_OnlyDescends ==
    spc = "animate" =>
        \A k \in 2 .. num_points : HeightOf(k) <= HeightOf(k - 1)

(* C25 (amended): the sequence first rises, from the top of First_Step,    *)
(* the lowest step, to the top of the step created last, the highest, by   *)
(* 17 rises of 0.25; from there every waypoint is lower than the one       *)
(* before it by one rise, down to First_Step again.                        *)
C25_DescendsAfterFirstPair ==
    spc = "animate" =>
        /\ HeightOf(2) = HeightOf(1) + (NumSteps - 1) * step_rise
        /\ HeightOf(2) > HeightOf(1)
        /\ \A k \in 3 .. num_points : HeightOf(k) = HeightOf(k - 1) - step_rise
        /\ \A k \in 1 .. num_points : HeightOf(k) >= HeightOf(1)
        /\ HeightOf(1) = first_step_height + BALL_RADIUS

\* The sequence for the 18 steps has been handed to animate_ball.
C25_Witness ==
    /\ spc = "animate"
    /\ apc = "start"
    /\ num_points = 19
    /\ HeightOf(2) > HeightOf(3)

\* The flight groups in the order of the calls that made them.
GroupOfCall(c) == CHOOSE g \in DOMAIN groups : groups[g].call = c

(* C26: generate_stairs creates exactly 18 steps, First_Step and flights   *)
(* of 6, 5, 4 and 2; the k-th step created (k from 0) has height           *)
(* 20 + 0.25 * k, also across flights; each call of                        *)
(* generate_flight_of_stairs creates its _num_steps_in_flight steps and    *)
(* returns the height of the next step.                                    *)
C26_EighteenRisingSteps ==
    /\ \A k \in 1 .. NumSteps : cubes[k].h = 20 * StairDen + 5 * (k - 1)
    /\ spc \in {"flight", "built", "animate"} => step_height = 20 * StairDen + 5 * NumSteps
    /\ spc \in {"built", "animate"} =>
          /\ NumSteps = 18
          /\ Cardinality(DOMAIN groups) = 4
          /\ Len(groups[GroupOfCall(1)].children) = 6
          /\ Len(groups[GroupOfCall(2)].children) = 5
          /\ Len(groups[GroupOfCall(3)].children) = 4
          /\ Len(groups[GroupOfCall(4)].children) = 2
    /\ \A g \in DOMAIN groups :
          /\ Len(groups[g].children) = Flights[groups[g].call].num_steps_in_flight
          /\ \A j \in 1 .. Len(groups[g].children) :
                groups[g].children[j] =
                    (IF j = 1 THEN (IF groups[g].call = 1 THEN 2
                                    ELSE groups[GroupOfCall(groups[g].call - 1)].children[
                                             Len(groups[GroupOfCall(groups[g].call - 1)].children)] + 1)
                     ELSE groups[g].children[j - 1] + 1)
    /\ (spc = "flight" /\ flight_call <= Len(Flights)) =>
          /\ Len(steps) = num_steps
          /\ num_steps <= Flights[flight_call].num_steps_in_flight

\* The staircase is built: the step created last is 24.25 high.
C26_Witness ==
    /\ spc = "built"
    /\ NumSteps = 18
    /\ cubes[18].h = 485
    /\ cubes[1].h = 400
    /\ cubes[8].h = cubes[7].h + 5

(* C27: generate_stairs requests the names Flight_of_Stairs_1 to           *)
(* Flight_of_Stairs_4 for its four flights in the order created, each      *)
(* flight being passed its own number, and these are the four names        *)
(* get_stairs_info looks up.                                               *)
C27_EachFlightItsOwnNumber ==
    /\ \A g \in DOMAIN groups : groups[g].requested = groups[g].call
    /\ spc \in {"built", "animate"} =>
          {groups[g].requested : g \in DOMAIN groups} = FlightNames

\* What the code does: every flight is requested as Flight_of_Stairs_1, and
\* the four names looked up exist because Maya counts a taken name up.
C27_AllRequestedAsFirst ==
    /\ \A g \in DOMAIN groups :
          /\ groups[g].requested = 1
          /\ g = groups[g].call
    /\ spc \in {"built", "animate"} => DOMAIN groups = FlightNames

(* C28: in every sample keyed by the loop the horizontal and the vertical  *)
(* scale sum to exactly 2 and both lie between 1 - s = 0.7 and             *)
(* 1 + s = 1.3.                                                            *)
C28_ScalesSumToTwo ==
    \A f \in LoopFrames :
        /\ keys[f].scale[1] + keys[f].scale[2] = 2 * ScaleDen
        /\ keys[f].scale[3] + keys[f].scale[2] = 2 * ScaleDen
        /\ \A a \in 1 .. 3 :
              /\ 7 * ScaleDen <= 10 * keys[f].scale[a]
              /\ 10 * keys[f].scale[a] <= 13 * ScaleDen

\* Four waypoints, done: keys of the loop at both ends of the range (the
\* key of frame 83, sampled before its segment's start, among them) and
\* strictly inside it.
C28_Witness ==
    /\ apc = "done"
    /\ num_points = 4
    /\ keys[83].t < 0
    /\ 10 * keys[83].scale[2] = 7 * ScaleDen
    /\ \E f \in LoopFrames : 10 * keys[f].scale[2] > 12 * ScaleDen
    /\ \E f \in LoopFrames :
          /\ keys[f].scale[1] < ScaleDen
          /\ 10 * keys[f].scale[1] > 9 * ScaleDen

(* C29: is_overlap is symmetric: a against [b] gives what b against [a]    *)
(* gives, for any two rectangles; against an empty list it gives False.    *)
C29_Symmetric ==
    Len(fn_out) = 3 =>
        /\ fn_out[1] = fn_out[2]
        /\ fn_out[3] = FALSE

\* What the code keeps: False against an empty list, and the same answer
\* both ways unless an edge of one rectangle is, in exact arithmetic,
\* exactly the clearance away from the facing edge of the other.
C29_SymmetricAwayFromTies ==
    Len(fn_out) = 3 =>
        /\ fn_out[3] = FALSE
        /\ fn_out[1] # fn_out[2] =>
              \/ Abs(fn_in[1][1] - fn_in[2][1]) - (fn_in[1][3] + fn_in[2][3]) \div 2
                    = 2 * min_dist_between_fr
              \/ Abs(fn_in[1][2] - fn_in[2][2]) - (fn_in[1][4] + fn_in[2][4]) \div 2
                    = 2 * min_dist_between_fr

(* C30: the shader index computed from a frame's height y for a list of    *)
(* L >= 1 shaders is a valid index 0 .. L - 1 for every y, and it never    *)
(* increases as y increases.                                               *)
C30_ShaderIndexValidMonotone ==
    Len(fn_out) = 2 =>
        /\ fn_out[1] \in 0 .. (fn_in[3] - 1)
        /\ fn_out[2] \in 0 .. (fn_in[3] - 1)
        /\ fn_in[1] <= fn_in[2] => fn_out[1] >= fn_out[2]
        /\ fn_in[1] >= fn_in[2] => fn_out[1] <= fn_out[2]

\* Two shaders or more; a frame below the wall's origin, where the index is
\* clamped from above, gets the last shader and a frame above the wall's
\* size, clamped from below, the first.
C30_Witness ==
    /\ Len(fn_out) = 2
    /\ fn_in[3] >= 2
    /\ fn_in[1] < 0
    /\ fn_in[2] > SQ_WALL_SIZE
    /\ fn_out[1] = fn_in[3] - 1
    /\ fn_out[2] = 0

====
